---- MODULE Spec2Model ----
(***************************************************************************)
(* Near-Earth objects, their close approaches, and the CSV / JSON writers. *)
(*                                                                         *)
(*   models.py : NearEarthObject, CloseApproach                            *)
(*   write.py  : write_to_csv, write_to_json                               *)
(*                                                                         *)
(* Two specifications:                                                     *)
(*   SpecModels  the two constructors applied to rows of input fields      *)
(*   Spec        a loaded database whose close approaches are being linked *)
(*               to their NEOs while the two writers are called on         *)
(*               sequences of close approaches                             *)
(***************************************************************************)
EXTENDS Naturals, Sequences, FiniteSets, TLC

VARIABLES neos, cas, fs, last

vars == <<neos, cas, fs, last>>

----------------------------------------------------------------------------
(* Bounds of the model *)

\* close approaches held by the database
MaxApproaches == 2
\* length of the `results` stream handed to a writer
MaxResults == 2

----------------------------------------------------------------------------
(* Python values.  A value is [ty, v] where v is the text str(value)       *)
(* gives; a float is identified by its repr, a datetime by its fields.     *)

PyNone == [ty |-> "NoneType", v |-> "None"]
PyStr(s) == [ty |-> "str", v |-> s]
PyFloat(r) == [ty |-> "float", v |-> r]
PyBool(b) == [ty |-> "bool", v |-> IF b THEN "True" ELSE "False"]
PyDatetime(d, hm, s) == [ty |-> "datetime", date |-> d, hm |-> hm, sec |-> s]

NaN == PyFloat("nan")

\* bool(x): the truth value `x if x else y` tests
Truthy(x) ==
    CASE x.ty = "NoneType" -> FALSE
      [] x.ty = "str" -> x.v # ""
      [] x.ty = "float" -> x.v \notin {"0.0", "-0.0"}
      [] x.ty = "bool" -> x.v = "True"
      [] OTHER -> TRUE

\* str(x), also what an f-string's {x} gives
str(x) ==
    IF x.ty = "datetime"
    THEN x.date \o " " \o x.hm \o ":" \o x.sec
    ELSE x.v

\* The repr of the float a piece of text denotes, "" when float() rejects it.
FloatLiteral(s) ==
    CASE s = "1.5" -> "1.5"
      [] s = "1.50" -> "1.5"
      [] s = "0" -> "0.0"
      [] s = "16.84" -> "16.84"
      [] s = "0.34" -> "0.34"
      [] s = "0.45" -> "0.45"
      [] s = "0.17" -> "0.17"
      [] s = "13.2" -> "13.2"
      [] s = "5.92" -> "5.92"
      [] s = "nan" -> "nan"
      [] OTHER -> ""

\* float(x): [err, val]; err is "" or the exception raised
float(x) ==
    CASE x.ty = "float" -> [err |-> "", val |-> x]
      [] x.ty = "str" ->
            IF FloatLiteral(x.v) = ""
            THEN [err |-> "ValueError", val |-> NaN]
            ELSE [err |-> "", val |-> PyFloat(FloatLiteral(x.v))]
      [] OTHER -> [err |-> "TypeError", val |-> NaN]

----------------------------------------------------------------------------
(* helpers.py: the date parser and formatter (not among the sources)       *)

\* "%Y-%b-%d %H:%M" text to its date and hour:minute, <<>> when malformed
CalendarDate(s) ==
    CASE s = "2020-Jan-01 00:00" -> <<"2020-01-01", "00:00">>
      [] s = "1931-Jan-30 04:07" -> <<"1931-01-30", "04:07">>
      [] s = "2029-Apr-13 21:46" -> <<"2029-04-13", "21:46">>
      [] OTHER -> <<>>

cd_to_datetime(cd) ==
    IF cd.ty # "str" THEN [err |-> "TypeError", val |-> PyNone]
    ELSE IF CalendarDate(cd.v) = <<>> THEN [err |-> "ValueError", val |-> PyNone]
    ELSE [err |-> "",
          val |-> PyDatetime(CalendarDate(cd.v)[1], CalendarDate(cd.v)[2], "00")]

\* minute precision: the seconds are not printed
datetime_to_str(t) == t.date \o " " \o t.hm

----------------------------------------------------------------------------
(* models.py *)

NoObject == [class |-> "None"]

\* line 44
NeoName(name) == IF Truthy(name) THEN name ELSE PyNone

\* faulty variant of Hazardous: the flag compared without regard to case
Hazardous_AnyCase(pha) == PyBool(pha \in {PyStr("Y"), PyStr("y")})

\* line 46
Hazardous(pha) == PyBool(pha = PyStr("Y"))

\* faulty variant of Diameter: no fallback for a missing diameter, as for
\* the distance and velocity of a close approach
Diameter_NoFallback(diameter) == float(diameter)

\* line 45
Diameter(diameter) ==
    IF Truthy(diameter) THEN float(diameter) ELSE [err |-> "", val |-> NaN]

\* NearEarthObject.__init__: [err, obj]
NearEarthObject(pdes, name, diameter, pha) ==
    IF Diameter(diameter).err # ""
    THEN [err |-> Diameter(diameter).err, obj |-> NoObject]
    ELSE [err |-> "",
          obj |-> [class |-> "NearEarthObject",
                   designation |-> pdes,
                   name |-> NeoName(name),
                   diameter |-> Diameter(diameter).val,
                   hazardous |-> Hazardous(pha),
                   approaches |-> <<>>]]

\* NearEarthObject.fullname
fullname(neo) == str(neo.designation) \o " (" \o str(neo.name) \o ")"

\* CloseApproach.__init__: [err, obj]; neo is 0 while unresolved (None)
CloseApproach(des, cd, dist, v_rel) ==
    IF cd_to_datetime(cd).err # ""
    THEN [err |-> cd_to_datetime(cd).err, obj |-> NoObject]
    ELSE IF float(dist).err # ""
    THEN [err |-> float(dist).err, obj |-> NoObject]
    ELSE IF float(v_rel).err # ""
    THEN [err |-> float(v_rel).err, obj |-> NoObject]
    ELSE [err |-> "",
          obj |-> [class |-> "CloseApproach",
                   designation |-> des,
                   time |-> cd_to_datetime(cd).val,
                   distance |-> float(dist).val,
                   velocity |-> float(v_rel).val,
                   neo |-> 0]]

\* CloseApproach.time_str
time_str(ca) == datetime_to_str(ca.time)

----------------------------------------------------------------------------
(* The linking step of the database constructor (not among the sources):   *)
(* the approach's neo is set and the approach joins neo.approaches.        *)

\* index in `ns` of the NEO with this designation, 0 when there is none
NeoByDesignation(ns, des) ==
    IF \E n \in 1..Len(ns) : ns[n].designation = des
    THEN CHOOSE n \in 1..Len(ns) : ns[n].designation = des
    ELSE 0

----------------------------------------------------------------------------
(* write.py *)

NoFile == [exists |-> FALSE, lines |-> <<>>]

\* faulty variant of OpenW: the file opened in append mode
OpenAppend(old) == [exists |-> TRUE, lines |-> old.lines]

\* open(filename, 'w'): the file exists and is empty
OpenW(old) == [exists |-> TRUE, lines |-> <<>>]

\* what has been written is in the file when it is closed
WriteLines(f, lines) == [exists |-> TRUE, lines |-> f.lines \o lines]

\* line 27
fieldnames ==
    <<"datetime_utc", "distance_au", "velocity_km_s", "designation", "name",
      "diameter_km", "potentially_hazardous">>

\* a close approach whose neo is still None: item.neo.designation raises
Unresolved(results) == \E i \in 1..Len(results) : cas[results[i]].neo = 0

\* faulty variant of CsvRow: distance and velocity in each other's column
CsvRow_Swapped(item) ==
    <<item.time, item.velocity, item.distance, neos[item.neo].designation,
      neos[item.neo].name, neos[item.neo].diameter, neos[item.neo].hazardous>>

\* line 28: the tuple of one item
CsvRow(item) ==
    <<item.time, item.distance, item.velocity, neos[item.neo].designation,
      neos[item.neo].name, neos[item.neo].diameter, neos[item.neo].hazardous>>

\* faulty variant of CsvField: every value written as str() gives it
CsvField_Str(x) == str(x)

\* csv.writer: None is written as the empty field, anything else as str()
CsvField(x) == IF x.ty = "NoneType" THEN "" ELSE str(x)

\* writer.writerow / writer.writerows: one line of fields per row
CsvLines(rows) ==
    [i \in 1..Len(rows) |-> [j \in 1..Len(rows[i]) |-> CsvField(rows[i][j])]]

\* faulty variant of write_to_csv: items whose neo is None are skipped
write_to_csv_SkipUnresolved(results, old) ==
    LET Linked(c) == cas[c].neo # 0
        kept == SelectSeq(results, Linked)
    IN  [err |-> "",
         file |-> WriteLines(WriteLines(OpenW(old), <<fieldnames>>),
                             CsvLines([i \in 1..Len(kept) |-> CsvRow(cas[kept[i]])]))]

\* write_to_csv: [err, file]
write_to_csv(results, old) ==
    IF Unresolved(results)
    THEN [err |-> "AttributeError", file |-> old]
    ELSE [err |-> "",
          file |-> WriteLines(WriteLines(OpenW(old), <<fieldnames>>),
                              CsvLines([i \in 1..Len(results) |->
                                           CsvRow(cas[results[i]])]))]

Quote(s) == "\"" \o s \o "\""

\* json.dump of a scalar
JsonValue(x) ==
    CASE x.ty = "NoneType" -> "null"
      [] x.ty = "str" -> Quote(x.v)
      [] x.ty = "bool" -> IF x.v = "True" THEN "true" ELSE "false"
      [] x.ty = "float" -> IF x.v = "nan" THEN "NaN" ELSE x.v
      [] OTHER -> Quote(str(x))

\* faulty variant of ApproachPairs: the time written as str() gives it
ApproachPairs_FullTime(item) ==
    << <<"datetime_utc", PyStr(str(item.time))>>,
       <<"distance_au", item.distance>>,
       <<"velocity_km_s", item.velocity>> >>

\* lines 49-51: the scalar members of one item's mapping
ApproachPairs(item) ==
    << <<"datetime_utc", PyStr(datetime_to_str(item.time))>>,
       <<"distance_au", item.distance>>,
       <<"velocity_km_s", item.velocity>> >>

\* lines 52-57: the nested mapping of the item's NEO
NeoPairs(neo) ==
    << <<"designation", neo.designation>>,
       <<"name", neo.name>>,
       <<"diameter_km", neo.diameter>>,
       <<"potentially_hazardous", neo.hazardous>> >>

\* json.dump(indent=2) of the members of a mapping, one line each; every
\* member but the last is followed by a comma when `open` is FALSE
JsonMembers(pairs, open) ==
    [i \in 1..Len(pairs) |->
        <<Quote(pairs[i][1]), ":", JsonValue(pairs[i][2])>>
        \o (IF open \/ i < Len(pairs) THEN <<",">> ELSE <<>>)]

\* the lines of one element of the array; `more` when another follows
JsonObject(item, more) ==
    << <<"{">> >>
    \o JsonMembers(ApproachPairs(item), TRUE)
    \o << <<Quote("neo"), ":", "{">> >>
    \o JsonMembers(NeoPairs(neos[item.neo]), FALSE)
    \o << <<"}">>, IF more THEN <<"}", ",">> ELSE <<"}">> >>

RECURSIVE JsonElements(_, _)
JsonElements(results, i) ==
    IF i > Len(results) THEN <<>>
    ELSE JsonObject(cas[results[i]], i < Len(results))
         \o JsonElements(results, i + 1)

\* json.dump(results, f, indent=2)
JsonDump(results) ==
    IF Len(results) = 0 THEN << <<"[]">> >>
    ELSE << <<"[">> >> \o JsonElements(results, 1) \o << <<"]">> >>

\* faulty variant of write_to_json: `results` is read before the file is opened
write_to_json_BuildFirst(results, old) ==
    IF Unresolved(results)
    THEN [err |-> "AttributeError", file |-> old]
    ELSE [err |-> "", file |-> WriteLines(OpenW(old), JsonDump(results))]

\* write_to_json: [err, file]; the file is opened before `results` is read
write_to_json(results, old) ==
    IF Unresolved(results)
    THEN [err |-> "AttributeError", file |-> OpenW(old)]
    ELSE [err |-> "", file |-> WriteLines(OpenW(old), JsonDump(results))]

----------------------------------------------------------------------------
(* Inputs *)

DesignationInputs == {PyStr("433"), PyStr("2020 AB")}
NameInputs == {PyNone, PyStr(""), PyStr("Eros")}
DiameterInputs ==
    {PyNone, PyStr(""), PyFloat("0.0"), PyFloat("1.5"), PyStr("1.5"),
     PyStr("1.50"), PyStr("0"), PyStr("nan"), PyStr("abc"), PyStr("1.5 km")}
PhaInputs == {PyStr("Y"), PyStr("N"), PyStr(""), PyStr("y"), PyNone}
DateInputs == {PyStr("2020-Jan-01 00:00"), PyStr("2020-01-01"), PyStr("")}
NumberInputs == {PyStr("0.45"), PyStr("13.2"), PyStr(""), PyStr("abc"), PyNone}

\* the NEO rows of the data set: pdes, name, diameter, pha
NeoRows ==
    << <<PyStr("433"), PyStr("Eros"), PyStr("16.84"), PyStr("N")>>,
       <<PyStr("2020 AB"), PyStr(""), PyStr(""), PyStr("N")>>,
       <<PyStr("99942"), PyStr("Apophis"), PyStr("0.34"), PyStr("Y")>> >>

\* the close-approach rows of the data set: des, cd, dist, v_rel
CadRows ==
    << <<PyStr("2020 AB"), PyStr("2020-Jan-01 00:00"), PyStr("0.45"), PyStr("13.2")>>,
       <<PyStr("99942"), PyStr("2029-Apr-13 21:46"), PyStr("0.17"), PyStr("5.92")>>,
       <<PyStr("2020 AB"), PyStr("1931-Jan-30 04:07"), PyStr("0.34"), PyStr("5.92")>> >>

\* the rows of CadRows whose index is in I, in the order of the data set
RowsAt(I) ==
    LET In(i) == i \in I
    IN  SelectSeq([i \in 1..Len(CadRows) |-> i], In)

Paths == {"neos.out"}

\* the streams of close approaches a writer can be handed
ResultStreams ==
    UNION {[1..n -> 1..Len(cas)] : n \in 0..MaxResults}

NoCall == [op |-> "none"]

----------------------------------------------------------------------------
(* SpecModels: the constructors *)

InitModels ==
    /\ neos = <<>>
    /\ cas = <<>>
    /\ fs = [p \in Paths |-> NoFile]
    /\ last = NoCall

NewNearEarthObject(pdes, name, diameter, pha) ==
    /\ last' = [op |-> "NearEarthObject",
                pdes |-> pdes, name |-> name, diameter |-> diameter, pha |-> pha,
                err |-> NearEarthObject(pdes, name, diameter, pha).err,
                obj |-> NearEarthObject(pdes, name, diameter, pha).obj]
    /\ UNCHANGED <<neos, cas, fs>>

NewCloseApproach(des, cd, dist, v_rel) ==
    /\ last' = [op |-> "CloseApproach",
                des |-> des, cd |-> cd, dist |-> dist, v_rel |-> v_rel,
                err |-> CloseApproach(des, cd, dist, v_rel).err,
                obj |-> CloseApproach(des, cd, dist, v_rel).obj]
    /\ UNCHANGED <<neos, cas, fs>>

NextModels ==
    \/ \E pdes \in DesignationInputs, name \in NameInputs,
          diameter \in DiameterInputs, pha \in PhaInputs :
          NewNearEarthObject(pdes, name, diameter, pha)
    \/ \E des \in DesignationInputs, cd \in DateInputs,
          dist \in NumberInputs, v_rel \in NumberInputs :
          NewCloseApproach(des, cd, dist, v_rel)

SpecModels == InitModels /\ [][NextModels]_vars

----------------------------------------------------------------------------
(* Spec: linking and writing *)

Init ==
    /\ neos = [i \in 1..Len(NeoRows) |->
                 NearEarthObject(NeoRows[i][1], NeoRows[i][2],
                                 NeoRows[i][3], NeoRows[i][4]).obj]
    /\ \E I \in SUBSET (1..Len(CadRows)) :
          /\ Cardinality(I) \in 1..MaxApproaches
          /\ cas = [i \in 1..Cardinality(I) |->
                     CloseApproach(CadRows[RowsAt(I)[i]][1], CadRows[RowsAt(I)[i]][2],
                                   CadRows[RowsAt(I)[i]][3], CadRows[RowsAt(I)[i]][4]).obj]
    /\ fs = [p \in Paths |-> NoFile]
    /\ last = NoCall

Link(c) ==
    /\ cas[c].neo = 0
    /\ NeoByDesignation(neos, cas[c].designation) # 0
    /\ LET n == NeoByDesignation(neos, cas[c].designation) IN
          /\ cas' = [cas EXCEPT ![c].neo = n]
          /\ neos' = [neos EXCEPT ![n].approaches = Append(@, c)]
    /\ last' = [op |-> "link", c |-> c]
    /\ UNCHANGED fs

WriteToCsv(results, path) ==
    /\ fs' = [fs EXCEPT ![path] = write_to_csv(results, fs[path]).file]
    /\ last' = [op |-> "write_to_csv", results |-> results, path |-> path,
                err |-> write_to_csv(results, fs[path]).err,
                hadData |-> fs[path].lines # <<>>]
    /\ UNCHANGED <<neos, cas>>

\* faulty variant of WriteToJson: an absent name is replaced by "" in the NEO
WriteToJson_Normalising(results, path) ==
    /\ fs' = [fs EXCEPT ![path] = write_to_json(results, fs[path]).file]
    /\ last' = [op |-> "write_to_json", results |-> results, path |-> path,
                err |-> write_to_json(results, fs[path]).err,
                hadData |-> fs[path].lines # <<>>]
    /\ neos' = [n \in DOMAIN neos |->
                 IF /\ neos[n].name = PyNone
                    /\ \E i \in 1..Len(results) : cas[results[i]].neo = n
                 THEN [neos[n] EXCEPT !.name = PyStr("")]
                 ELSE neos[n]]
    /\ UNCHANGED cas

WriteToJson(results, path) ==
    /\ fs' = [fs EXCEPT ![path] = write_to_json(results, fs[path]).file]
    /\ last' = [op |-> "write_to_json", results |-> results, path |-> path,
                err |-> write_to_json(results, fs[path]).err,
                hadData |-> fs[path].lines # <<>>]
    /\ UNCHANGED <<neos, cas>>

Next ==
    \/ \E c \in 1..Len(cas) : Link(c)
    \/ \E results \in ResultStreams, path \in Paths : WriteToCsv(results, path)
    \/ \E results \in ResultStreams, path \in Paths : WriteToJson(results, path)

Spec == Init /\ [][Next]_vars

----------------------------------------------------------------------------
(* Properties *)

IsWrite(call) == call.op \in {"write_to_csv", "write_to_json"}
WroteCsv == last.op = "write_to_csv" /\ last.err = ""
WroteJson == last.op = "write_to_json" /\ last.err = ""
Built(class) == last.op = class /\ last.err = ""

\* the lines of the file the last writer call was given
Written == fs[last.path].lines

\* the i-th record of the last call's results, and its NEO
Item(i) == cas[last.results[i]]
NeoOf(i) == neos[Item(i).neo]

\* C1: after a successful write_to_csv the file holds the seven-field header
\* row followed by exactly one row per record of `results`, the i-th row
\* being time, distance, velocity, neo.designation, neo.name, neo.diameter,
\* neo.hazardous of the i-th record.
C1_CsvHeaderAndRows ==
    WroteCsv =>
        /\ fs[last.path].exists
        /\ Len(Written) = 1 + Len(last.results)
        /\ Written[1] = <<"datetime_utc", "distance_au", "velocity_km_s",
                          "designation", "name", "diameter_km",
                          "potentially_hazardous">>
        /\ \A i \in 1..Len(last.results) :
              /\ Len(Written[i + 1]) = 7
              /\ Written[i + 1][1] = str(Item(i).time)
              /\ Written[i + 1][2] = str(Item(i).distance)
              /\ Written[i + 1][3] = str(Item(i).velocity)
              /\ Written[i + 1][4] = str(NeoOf(i).designation)
              /\ Written[i + 1][5] =
                    (IF NeoOf(i).name = PyNone THEN "" ELSE str(NeoOf(i).name))
              /\ Written[i + 1][6] = str(NeoOf(i).diameter)
              /\ Written[i + 1][7] = str(NeoOf(i).hazardous)

\* two different records were written, in the order given
C1_Witness ==
    /\ WroteCsv
    /\ Len(last.results) = 2
    /\ last.results[1] > last.results[2]
    /\ Item(1).distance # Item(2).distance

C3_FullnameOmitsAbsentName ==
    Built("NearEarthObject") =>
        fullname(last.obj) =
            (IF last.obj.name = PyNone
             THEN last.obj.designation.v
             ELSE last.obj.designation.v \o " (" \o last.obj.name.v \o ")")

\* C4: after a successful write_to_json the file holds one array with one
\* element per record of `results`, in order; each element has exactly the
\* members datetime_utc, distance_au, velocity_km_s, neo, and each neo exactly
\* designation, name, diameter_km, potentially_hazardous; datetime_utc is the
\* record's time_str.
C4_JsonArrayOfRecords ==
    WroteJson =>
        /\ Len(last.results) = 0 => Written = << <<"[]">> >>
        /\ Len(last.results) > 0 =>
              /\ Len(Written) = 2 + 11 * Len(last.results)
              /\ Written[1] = <<"[">>
              /\ Written[Len(Written)] = <<"]">>
        /\ \A i \in 1..Len(last.results) :
              LET b == 1 + 11 * (i - 1)
                  Member(k, key, text, comma) ==
                      Written[b + k] =
                          <<"\"" \o key \o "\"", ":", text>>
                          \o (IF comma THEN <<",">> ELSE <<>>)
              IN  /\ Written[b + 1] = <<"{">>
                  /\ Member(2, "datetime_utc", Quote(time_str(Item(i))), TRUE)
                  /\ Member(3, "distance_au", JsonValue(Item(i).distance), TRUE)
                  /\ Member(4, "velocity_km_s", JsonValue(Item(i).velocity), TRUE)
                  /\ Member(5, "neo", "{", FALSE)
                  /\ Member(6, "designation", JsonValue(NeoOf(i).designation), TRUE)
                  /\ Member(7, "name", JsonValue(NeoOf(i).name), TRUE)
                  /\ Member(8, "diameter_km", JsonValue(NeoOf(i).diameter), TRUE)
                  /\ Member(9, "potentially_hazardous",
                            JsonValue(NeoOf(i).hazardous), FALSE)
                  /\ Written[b + 10] = <<"}">>
                  /\ Written[b + 11] =
                        (IF i < Len(last.results) THEN <<"}", ",">> ELSE <<"}">>)

\* two different records were written as JSON, in the order given
C4_Witness ==
    /\ WroteJson
    /\ Len(last.results) = 2
    /\ last.results[1] > last.results[2]
    /\ time_str(Item(1)) # time_str(Item(2))

\* C5: after a successful writer call the file exists and holds exactly what
\* that call writes to a path that did not exist: nothing of what the file
\* held before remains.
C5_CompleteOverwrite ==
    /\ WroteCsv =>
          /\ fs[last.path].exists
          /\ Written = write_to_csv(last.results, NoFile).file.lines
          /\ Written[1] = fieldnames
    /\ WroteJson =>
          /\ fs[last.path].exists
          /\ Written = write_to_json(last.results, NoFile).file.lines
          /\ Written[1] \in {<<"[">>, <<"[]">>}

\* a writer succeeded on a file that held data
C5_Witness ==
    /\ IsWrite(last)
    /\ last.err = ""
    /\ last.hadData
    /\ Len(last.results) = 1

\* C6: a writer call whose `results` holds a close approach with neo still
\* None fails with an attribute error, and writes nothing: a JSON file is
\* left empty, a CSV file that held no data still holds none.
C6_UnresolvedNeoFails ==
    IsWrite(last) /\ Unresolved(last.results) =>
        /\ last.err = "AttributeError"
        /\ last.op = "write_to_json" => Written = <<>>
        /\ last.op = "write_to_csv" /\ ~last.hadData => Written = <<>>

\* a call failed on results whose first record is linked and second is not
C6_Witness ==
    /\ IsWrite(last)
    /\ last.err = "AttributeError"
    /\ Len(last.results) = 2
    /\ Item(1).neo # 0
    /\ Item(2).neo = 0

\* C7: hazardous is a boolean, true exactly when the flag is the string "Y".
C7_HazardousIffY ==
    Built("NearEarthObject") =>
        /\ last.obj.hazardous \in {PyBool(TRUE), PyBool(FALSE)}
        /\ last.obj.hazardous = PyBool(TRUE) <=> last.pha = PyStr("Y")

\* an object was built from the flag "y" and is not hazardous
C7_Witness ==
    /\ Built("NearEarthObject")
    /\ last.pha = PyStr("y")
    /\ last.obj.hazardous = PyBool(FALSE)

\* C8: a NearEarthObject built from a falsy diameter has diameter NaN; from a
\* numeric string, that number; from any other non-empty string the
\* construction fails with a value error and there is no object.  A
\* CloseApproach given "" for distance or velocity fails.
C8_DiameterFallback ==
    /\ last.op = "NearEarthObject" =>
          /\ ~Truthy(last.diameter) =>
                last.err = "" /\ last.obj.diameter = NaN
          /\ last.diameter \in {PyStr("1.5"), PyStr("1.50")} =>
                last.err = "" /\ last.obj.diameter = PyFloat("1.5")
          /\ last.diameter.ty = "str" /\ FloatLiteral(last.diameter.v) # "" =>
                /\ last.err = ""
                /\ last.obj.diameter = PyFloat(FloatLiteral(last.diameter.v))
          /\ /\ last.diameter.ty = "str"
             /\ last.diameter.v # ""
             /\ FloatLiteral(last.diameter.v) = ""
             => last.err = "ValueError" /\ last.obj = NoObject
    /\ last.op = "CloseApproach" =>
          (last.dist = PyStr("") \/ last.v_rel = PyStr("") =>
              last.err # "" /\ last.obj = NoObject)

\* an object was built from the diameter "" and has diameter NaN
C8_Witness ==
    /\ Built("NearEarthObject")
    /\ last.diameter = PyStr("")
    /\ last.obj.diameter = NaN

\* every linked approach is in its NEO's approaches, and every approach in
\* an NEO's approaches points back to that NEO
LinkConsistent ==
    /\ \A c \in 1..Len(cas) :
          cas[c].neo # 0 =>
              \E k \in 1..Len(neos[cas[c].neo].approaches) :
                  neos[cas[c].neo].approaches[k] = c
    /\ \A n \in 1..Len(neos) :
          \A k \in 1..Len(neos[n].approaches) :
              cas[neos[n].approaches[k]].neo = n

\* C9: a writer call, successful or failing, changes no attribute of any
\* CloseApproach or NearEarthObject, so the links between them are as before.
C9_WritersOnlyRead ==
    [][IsWrite(last') =>
          /\ neos' = neos
          /\ cas' = cas
          /\ LinkConsistent => LinkConsistent']_vars

\* a writer was called while an NEO held two linked approaches
C9_Witness ==
    /\ IsWrite(last)
    /\ LinkConsistent
    /\ \E n \in 1..Len(neos) :
          /\ Len(neos[n].approaches) = 2
          /\ neos[n].name = PyNone
          /\ \E i \in 1..Len(last.results) : Item(i).neo = n

\* C10: a write_to_csv call that fails on an unresolved NEO leaves the file
\* as it was; a write_to_json call that fails on one leaves the file existing
\* and empty.
C10_FailureAndTheFile ==
    [][/\ last'.op = "write_to_csv" /\ last'.err = "AttributeError" => fs' = fs
       /\ last'.op = "write_to_json" /\ last'.err = "AttributeError" =>
             fs'[last'.path] = [exists |-> TRUE, lines |-> <<>>]]_vars

\* write_to_json failed on a file that held data, and the data is gone
C10_Witness ==
    /\ last.op = "write_to_json"
    /\ last.err = "AttributeError"
    /\ last.hadData
    /\ Written = <<>>

====
